---- MODULE Spec2Model ----
(***************************************************************************)
(* Model of the RAG assistant: the Lambda entry point                      *)
(* (lambda_function/app.py), the query pipeline                            *)
(* (rag_core/core/rag_pipeline.py), the provider factories, and the        *)
(* offline index builder (scripts/build_index.py).                         *)
(*                                                                         *)
(* Python strings are sequences of one-character strings, so that          *)
(* str.lower() and str.title() are computed, not assumed.  Python dicts    *)
(* are records whose DOMAIN is the key set.  Provider calls (Bedrock,      *)
(* Pinecone) are black boxes: each call either raises or returns one of a  *)
(* bounded set of values.                                                  *)
(***************************************************************************)
EXTENDS Integers, Sequences, FiniteSets, TLC

VARIABLES
    entry,        \* which program runs in this process
    settings,     \* rag_core.config.settings.settings (read from the environment)
    pipeline,     \* lambda_function.app.pipeline (module global)
    constructed,  \* number of RAGPipeline instances built so far in the process
    attempts,     \* number of RAGPipeline() calls made so far in the process
    invocations,  \* number of lambda_handler invocations started so far
    pc,           \* position of the handler
    body,         \* lambda_handler local: the parsed request body
    q,            \* RAGPipeline.query locals: country, top_k, matches
    result,       \* lambda_handler local: result
    response,     \* what lambda_handler returned
    calls,        \* calls made during the current invocation
    ix            \* state of the index builder process

vars == <<entry, settings, pipeline, constructed, attempts, invocations, pc, body, q,
          result, response, calls, ix>>

-----------------------------------------------------------------------------
(* Bounds *)

MaxInvocations == 2
MaxUpper == 1
MaxMatches == 2
MaxChunks == 101

-----------------------------------------------------------------------------
(* Python strings *)

LowerAlphabet ==
    <<"a","b","c","d","e","f","g","h","i","j","k","l","m",
      "n","o","p","q","r","s","t","u","v","w","x","y","z">>

UpperAlphabet ==
    <<"A","B","C","D","E","F","G","H","I","J","K","L","M",
      "N","O","P","Q","R","S","T","U","V","W","X","Y","Z">>

IsUpperChar(ch) == \E i \in 1..Len(UpperAlphabet) : UpperAlphabet[i] = ch

IsLowerChar(ch) == \E i \in 1..Len(LowerAlphabet) : LowerAlphabet[i] = ch

LowerChar(ch) ==
    IF IsUpperChar(ch)
    THEN LowerAlphabet[CHOOSE i \in 1..Len(UpperAlphabet) : UpperAlphabet[i] = ch]
    ELSE ch

UpperChar(ch) ==
    IF IsLowerChar(ch)
    THEN UpperAlphabet[CHOOSE i \in 1..Len(LowerAlphabet) : LowerAlphabet[i] = ch]
    ELSE ch

Lower_Identity(s) == s

\* str.lower()
Lower(s) == [i \in 1..Len(s) |-> LowerChar(s[i])]

\* str.upper()
Upper(s) == [i \in 1..Len(s) |-> UpperChar(s[i])]

\* str.title(): a cased character is upper-cased after an uncased one (or
\* at the start) and lower-cased after a cased one
Title(s) ==
    [i \in 1..Len(s) |->
        IF i = 1 \/ ~(IsUpperChar(s[i-1]) \/ IsLowerChar(s[i-1]))
        THEN UpperChar(s[i])
        ELSE LowerChar(s[i])]

\* membership in a Python list
InList(x, list) == \E i \in 1..Len(list) : list[i] = x

-----------------------------------------------------------------------------
(* JSON values of a request body; body.get(key) of an absent key is None *)

JAbsent == [t |-> "absent", s |-> <<>>, n |-> 0]
JStr(s) == [t |-> "str", s |-> s, n |-> 0]
JInt(n) == [t |-> "int", s |-> <<>>, n |-> n]

\* Python truthiness: None, "" and 0 are false
Truthy(v) ==
    \/ v.t = "str" /\ v.s # <<>>
    \/ v.t = "int" /\ v.n # 0

None == [none |-> TRUE]

-----------------------------------------------------------------------------
(* rag_core/config/settings.py *)

COUNTRIES ==
    << <<"s","p","a","i","n">>,
       <<"p","o","l","a","n","d">>,
       <<"c","o","l","o","m","b","i","a">>,
       <<"i","t","a","l","y">>,
       <<"g","e","o","r","g","i","a">> >>

pinecone == <<"p","i","n","e","c","o","n","e">>
bedrock == <<"b","e","d","r","o","c","k">>

DefaultSettings ==
    [VECTOR_STORE_TYPE |-> pinecone,
     EMBEDDINGS_TYPE |-> bedrock,
     LLM_TYPE |-> bedrock,
     PINECONE_API_KEY |-> <<"k">>,
     PINECONE_INDEX_NAME |-> <<"x">>,
     TOP_K_RESULTS |-> 5]

SettingsKeys == DOMAIN DefaultSettings

\* another value of each environment variable: an unsupported provider
\* kind, an absent credential, another default top_k
OtherSettings ==
    [VECTOR_STORE_TYPE |-> <<"f","a","i","s","s">>,
     EMBEDDINGS_TYPE |-> <<"o","p","e","n","a","i">>,
     LLM_TYPE |-> <<"o","p","e","n","a","i">>,
     PINECONE_API_KEY |-> <<>>,
     PINECONE_INDEX_NAME |-> <<>>,
     TOP_K_RESULTS |-> 3]

\* the environments the process may be started in: a working deployment,
\* or one with one variable set differently
Settings ==
    {DefaultSettings}
        \cup {[DefaultSettings EXCEPT ![k] = OtherSettings[k]] : k \in SettingsKeys}

-----------------------------------------------------------------------------
(* Factories and RAGPipeline.__init__: TRUE when construction raises        *)
(* because of the configuration                                            *)

PineconeStoreInitRaises(api_key, index_name) ==
    api_key = <<>> \/ index_name = <<>>

get_vector_store_raises(st) ==
    IF Lower(st.VECTOR_STORE_TYPE) = pinecone
    THEN PineconeStoreInitRaises(st.PINECONE_API_KEY, st.PINECONE_INDEX_NAME)
    ELSE TRUE

get_embeddings_raises(st) == Lower(st.EMBEDDINGS_TYPE) # bedrock

get_llm_raises(st) == Lower(st.LLM_TYPE) # bedrock

RAGPipelineInitRaises(st) ==
    \/ get_vector_store_raises(st)
    \/ get_embeddings_raises(st)
    \/ get_llm_raises(st)

-----------------------------------------------------------------------------
(* Requests delivered to lambda_handler *)

a_query == <<"q","u","e","r","y">>
a_stats == <<"s","t","a","t","s">>
a_list_countries == <<"l","i","s","t","_","c","o","u","n","t","r","i","e","s">>
a_delete == <<"d","e","l","e","t","e">>

\* the first k characters upper-cased
UpperFirst(s, k) == [i \in 1..Len(s) |-> IF i <= k THEN UpperChar(s[i]) ELSE s[i]]

CaseVariants(s) == {UpperFirst(s, k) : k \in 0..MaxUpper} \cup {Upper(s)}

SupportedInputs == UNION {CaseVariants(COUNTRIES[i]) : i \in 1..Len(COUNTRIES)}

UnsupportedInputs ==
    { <<"a","t","l","a","n","t","i","s">>, <<"s","p","a","i","n"," ">> }

CountryInputs ==
    {JAbsent, JStr(<<>>), JInt(5)}
        \cup {JStr(s) : s \in SupportedInputs \cup UnsupportedInputs}

a_question == <<"h","i","?">>

QuestionInputs == {JAbsent, JStr(<<>>), JStr(a_question)}

TopKInputs == {JAbsent, JInt(0), JInt(2), JInt(-1)}

Bodies ==
    [isdict : {TRUE},
     action : {JAbsent, JStr(a_query)},
     country : CountryInputs,
     question : QuestionInputs,
     top_k : TopKInputs]
    \cup
    [isdict : {TRUE},
     action : {JStr(a_stats), JStr(a_list_countries), JStr(a_delete)},
     country : {JAbsent, JStr(COUNTRIES[1])},
     question : {JAbsent, JStr(a_question)},
     top_k : {JAbsent}]

\* a body that is valid JSON but not an object (a list, null)
NotADict ==
    [isdict |-> FALSE, action |-> JAbsent, country |-> JAbsent,
     question |-> JAbsent, top_k |-> JAbsent]

\* event['body'] is a JSON string ("str", possibly malformed), event['body']
\* is already a dict ("dict"), or the event itself is the body ("event")
Events ==
    [shape : {"str", "dict", "event"}, malformed : {FALSE}, payload : Bodies]
    \cup [shape : {"str", "dict"}, malformed : {FALSE}, payload : {NotADict}]
    \cup [shape : {"str"}, malformed : {TRUE}, payload : {NotADict}]

-----------------------------------------------------------------------------
(* Provider outcomes *)

\* the match ranked k-th: scores are non-increasing in k; metadata.page may be absent
Match(k, hasPage) ==
    [id |-> k,
     score |-> 100 - 10 * k,
     metadata |-> IF hasPage
                  THEN [text |-> k, source_file |-> k, page |-> k]
                  ELSE [text |-> k, source_file |-> k]]

Min(a, b) == IF a <= b THEN a ELSE b

\* what PineconeStore.search may return for top_k: at most top_k matches
SearchResults(top_k) ==
    UNION { { [k \in 1..m |-> Match(k, hp[k])] : hp \in [1..m -> BOOLEAN] }
            : m \in 0..Min(top_k, MaxMatches) }

a_model == "anthropic.claude-3-5-sonnet-20240620-v1:0"

\* what PineconeStore.get_stats may return
StatsResults ==
    { [total_vector_count |-> 0,
       namespaces |-> [ns \in {} |-> [vector_count |-> 0]]],
      [total_vector_count |-> 2,
       namespaces |-> [ns \in {COUNTRIES[1]} |-> [vector_count |-> 2]]] }

-----------------------------------------------------------------------------
(* lambda_function/app.py *)

NoBody == NotADict

NoQuery == [country |-> JAbsent, question |-> JAbsent, top_k |-> JAbsent,
            matches |-> <<>>]

NoCalls ==
    [query |-> 0, list_countries |-> 0, get_index_stats |-> 0,
     embed_query |-> <<>>, search |-> <<>>, generate_with_context |-> <<>>,
     raised |-> <<>>]

\* the return statements of lambda_handler
Response(status, payload) == [statusCode |-> status, body |-> payload]

\* the except clause of lambda_handler
ErrorResponse(exc) == Response(500, [error |-> exc, type |-> exc])

\* 'body' in event / json.loads(event['body']) / event
ParseBody(event) ==
    IF event.malformed
    THEN [raises |-> TRUE, body |-> NoBody]
    ELSE [raises |-> FALSE, body |-> event.payload]

\* lambda_handler is entered; the request body is parsed
Invoke(event) ==
    /\ entry = "lambda_function"
    /\ pc = "idle"
    /\ invocations < MaxInvocations
    /\ invocations' = invocations + 1
    /\ LET parsed == ParseBody(event) IN
        IF parsed.raises
        THEN /\ response' = ErrorResponse("JSONDecodeError")
             /\ pc' = "returned"
             /\ body' = NoBody
        ELSE /\ response' = None
             /\ pc' = "get_pipeline"
             /\ body' = parsed.body
    /\ UNCHANGED <<entry, settings, pipeline, constructed, attempts, q, result, calls, ix>>

NeedsConstruction_Always(p) == TRUE

\* get_pipeline: if pipeline is None
NeedsConstruction(p) == p = None

\* get_pipeline(): the module global is filled on first use; clientOK is
\* whether the Pinecone and Bedrock client constructors succeed
get_pipeline(clientOK) ==
    /\ pc = "get_pipeline"
    /\ IF ~NeedsConstruction(pipeline)
       THEN /\ pc' = "dispatch"
            /\ UNCHANGED <<pipeline, constructed, attempts, response>>
       ELSE /\ attempts' = attempts + 1
            /\ IF RAGPipelineInitRaises(settings)
               THEN /\ response' = ErrorResponse("ValueError")
                    /\ pc' = "returned"
                    /\ UNCHANGED <<pipeline, constructed>>
               ELSE IF ~clientOK
               THEN /\ response' = ErrorResponse("ClientError")
                    /\ pc' = "returned"
                    /\ UNCHANGED <<pipeline, constructed>>
               ELSE /\ pipeline' = [instance |-> constructed + 1]
                    /\ constructed' = constructed + 1
                    /\ pc' = "dispatch"
                    /\ UNCHANGED response
    /\ UNCHANGED <<entry, settings, invocations, body, q, result, calls, ix>>

\* RAGPipeline.list_countries
list_countries == COUNTRIES

\* lambda_handler: not country or not question
MissingFields(b) == ~Truthy(b.country) \/ ~Truthy(b.question)

\* body.get('action', 'query')
ActionOf(b) == IF b.action.t = "absent" THEN a_query ELSE b.action.s

\* body.get('top_k', 5)
TopKOf(b) == IF b.top_k.t = "absent" THEN JInt(5) ELSE b.top_k

\* the action dispatch of lambda_handler, up to the call it makes
Dispatch ==
    /\ pc = "dispatch"
    /\ IF ~body.isdict
       THEN /\ response' = ErrorResponse("AttributeError")
            /\ pc' = "returned"
            /\ UNCHANGED <<q, result, calls>>
       ELSE IF ActionOf(body) = a_stats
       THEN /\ pc' = "get_index_stats"
            /\ UNCHANGED <<q, result, response, calls>>
       ELSE IF ActionOf(body) = a_list_countries
       THEN /\ calls' = [calls EXCEPT !.list_countries = @ + 1]
            /\ result' = [countries |-> list_countries]
            /\ response' = Response(200, result')
            /\ pc' = "returned"
            /\ UNCHANGED q
       ELSE IF ActionOf(body) = a_query
       THEN IF MissingFields(body)
            THEN /\ response' = Response(400, [error |-> "Missing required fields: country and question"])
                 /\ pc' = "returned"
                 /\ UNCHANGED <<q, result, calls>>
            ELSE /\ q' = [NoQuery EXCEPT !.country = body.country,
                                         !.question = body.question,
                                         !.top_k = TopKOf(body)]
                 /\ pc' = "query"
                 /\ UNCHANGED <<result, response, calls>>
       ELSE /\ response' = Response(400, [error |-> "Unknown action", action |-> ActionOf(body)])
            /\ pc' = "returned"
            /\ UNCHANGED <<q, result, calls>>
    /\ UNCHANGED <<entry, settings, pipeline, constructed, attempts, invocations, body, ix>>

-----------------------------------------------------------------------------
(* rag_core/core/rag_pipeline.py *)

\* lambda_handler's "Return success response" with the result of the pipeline
ReturnResult(res) ==
    /\ result' = res
    /\ response' = Response(200, res)
    /\ pc' = "returned"

\* RAGPipeline.get_index_stats, called by lambda_handler for action stats;
\* raises is whether vector_store.get_stats() raises
get_index_stats(raises, stats) ==
    /\ pc = "get_index_stats"
    /\ calls' = [calls EXCEPT !.get_index_stats = @ + 1,
                              !.raised = IF raises THEN Append(@, "get_stats") ELSE @]
    /\ IF raises
       THEN ReturnResult([error |-> "Error fetching stats"])
       ELSE ReturnResult([total_vectors |-> stats.total_vector_count,
                          namespaces |-> stats.namespaces,
                          countries |-> COUNTRIES])
    /\ UNCHANGED <<entry, settings, pipeline, constructed, attempts, invocations, body, q, ix>>

InvalidCountry_NoList ==
    [error |-> <<"Invalid country. Supported: ", COUNTRIES>>]

\* the result of a rejected country
InvalidCountry ==
    [error |-> <<"Invalid country. Supported: ", COUNTRIES>>,
     supported_countries |-> COUNTRIES]

QueryError_NoCountry(country) ==
    [error |-> "Error processing query"]

\* the result of the except clause of query
QueryError(country) ==
    [error |-> "Error processing query", country |-> country]

\* the result of query when search returned no match
NoMatchesResult(country) ==
    [answer |-> <<"No relevant information found in ", Title(country), " knowledge base.">>,
     country |-> country,
     sources |-> <<>>]

\* top_k or settings.TOP_K_RESULTS
EffectiveTopK(top_k, st) == IF Truthy(top_k) THEN top_k.n ELSE st.TOP_K_RESULTS

\* RAGPipeline.query up to the try block: country validation and defaults
query_validate ==
    /\ pc = "query"
    /\ calls' = [calls EXCEPT !.query = @ + 1]
    /\ IF q.country.t # "str"
       THEN \* country.lower() raises AttributeError, outside the try block
            /\ response' = ErrorResponse("AttributeError")
            /\ pc' = "returned"
            /\ UNCHANGED <<q, result>>
       ELSE IF ~InList(Lower(q.country.s), COUNTRIES)
       THEN /\ ReturnResult(InvalidCountry)
            /\ UNCHANGED q
       ELSE /\ q' = [q EXCEPT !.country = JStr(Lower(q.country.s)),
                              !.top_k = JInt(EffectiveTopK(q.top_k, settings))]
            /\ pc' = "embed_query"
            /\ UNCHANGED <<result, response>>
    /\ UNCHANGED <<entry, settings, pipeline, constructed, attempts, invocations, body, ix>>

\* Step 1 of query: self.embeddings.embed_query(question)
embed_query(raises) ==
    /\ pc = "embed_query"
    /\ calls' = [calls EXCEPT !.embed_query = Append(@, q.question.s),
                              !.raised = IF raises THEN Append(@, "embed_query") ELSE @]
    /\ IF raises
       THEN ReturnResult(QueryError(q.country.s))
       ELSE /\ pc' = "search"
            /\ UNCHANGED <<result, response>>
    /\ UNCHANGED <<entry, settings, pipeline, constructed, attempts, invocations, body, q, ix>>

SearchNamespace_Raw(query) == body.country.s

\* the namespace query passes to search
SearchNamespace(query) == query.country.s

NoMatches_Never(matches) == FALSE

\* query: if not matches
NoMatches(matches) == matches = <<>>

\* Step 2 of query: self.vector_store.search(...) and the no-match return
search(raises, matches) ==
    /\ pc = "search"
    /\ IF raises THEN matches = <<>> ELSE matches \in SearchResults(q.top_k.n)
    /\ calls' = [calls EXCEPT !.search =
                    Append(@, [namespace |-> SearchNamespace(q), top_k |-> q.top_k.n,
                               returned |-> IF raises THEN <<>> ELSE matches]),
                              !.raised = IF raises THEN Append(@, "search") ELSE @]
    /\ IF raises
       THEN /\ ReturnResult(QueryError(q.country.s))
            /\ UNCHANGED q
       ELSE IF NoMatches(matches)
       THEN /\ ReturnResult(NoMatchesResult(q.country.s))
            /\ UNCHANGED q
       ELSE /\ q' = [q EXCEPT !.matches = matches]
            /\ pc' = "generate_with_context"
            /\ UNCHANGED <<result, response>>
    /\ UNCHANGED <<entry, settings, pipeline, constructed, attempts, invocations, body, ix>>

\* Step 3 of query: the context chunks and the sources of the matches
ContextChunks_Reversed(matches) ==
    [k \in 1..Len(matches) |-> matches[Len(matches) + 1 - k].metadata.text]

ContextChunks(matches) == [k \in 1..Len(matches) |-> matches[k].metadata.text]

Sources(matches) ==
    [k \in 1..Len(matches) |->
        [file |-> matches[k].metadata.source_file,
         score |-> matches[k].score,
         page |-> IF "page" \in DOMAIN matches[k].metadata
                  THEN <<matches[k].metadata.page>>
                  ELSE <<"N/A">>]]

\* Step 5 of query: the formatted response
SuccessResult(country, matches, generated) ==
    [answer |-> generated.answer,
     country |-> country,
     sources |-> Sources(matches),
     chunks_used |-> Len(ContextChunks(matches)),
     model |-> generated.model]

\* Step 4 and 5 of query: self.llm.generate_with_context(...) and the return
generate_with_context(raises) ==
    /\ pc = "generate_with_context"
    /\ calls' = [calls EXCEPT !.generate_with_context =
                    Append(@, [question |-> q.question.s,
                               context_chunks |-> ContextChunks(q.matches),
                               temperature |-> "0.3"]),
                              !.raised = IF raises THEN Append(@, "generate_with_context") ELSE @]
    /\ IF raises
       THEN ReturnResult(QueryError(q.country.s))
       ELSE ReturnResult(SuccessResult(q.country.s, q.matches,
                [answer |-> "generated answer",
                 context_used |-> Len(ContextChunks(q.matches)),
                 model |-> a_model]))
    /\ UNCHANGED <<entry, settings, pipeline, constructed, attempts, invocations, body, q, ix>>

\* lambda_handler has returned: its locals are gone, the module global stays
Return ==
    /\ pc = "returned"
    /\ pc' = "idle"
    /\ body' = NoBody
    /\ q' = NoQuery
    /\ result' = None
    /\ response' = None
    /\ calls' = NoCalls
    /\ UNCHANGED <<entry, settings, pipeline, constructed, attempts, invocations, ix>>

-----------------------------------------------------------------------------
(* scripts/build_index.py *)

\* build_index.COUNTRIES
INDEX_COUNTRIES == COUNTRIES

\* upsert_chunks: batch_size
batch_size == 100

\* the namespaces of the vector index
Namespaces == {INDEX_COUNTRIES[k] : k \in 1..Len(INDEX_COUNTRIES)}

\* the PDFs a country directory may hold, as the number of chunks the
\* splitter makes of each file
DocumentSets == { <<0>>, <<1>>, <<MaxChunks - 1, 1>> }

\* what process_country may find under data/<country>: no directory, no
\* PDF, a PDF that fails to load, or PDFs that load
CountryDirs ==
    [kind : {"no_dir", "no_pdf", "load_raises"}, docs : {<<>>}]
        \cup [kind : {"pdfs"}, docs : DocumentSets]

\* process_country: the chunks of one PDF with the metadata added to them
FileChunks(country, file, n) ==
    [k \in 1..n |->
        [page_content |-> <<file, k>>,
         metadata |-> [page |-> k, country |-> country,
                       source_file |-> file, namespace |-> country]]]

RECURSIVE AllChunks(_, _, _)
\* process_country: all_chunks over the files from index `file` on
AllChunks(country, docs, file) ==
    IF file > Len(docs) THEN <<>>
    ELSE FileChunks(country, file, docs[file]) \o AllChunks(country, docs, file + 1)

\* upsert_chunks: the vector id of the chunk at global position p
VectorId(namespace, p) == <<namespace, p>>

\* upsert_chunks: the record built for batch[idx] of the batch starting at i
VectorRecord_BatchLocalId(namespace, i, idx, chunk) ==
    [id |-> VectorId(namespace, idx),
     metadata |-> [text |-> chunk.page_content,
                   country |-> chunk.metadata.country,
                   source_file |-> chunk.metadata.source_file,
                   page |-> chunk.metadata.page]]

VectorRecord(namespace, i, idx, chunk) ==
    [id |-> VectorId(namespace, i + idx),
     metadata |-> [text |-> chunk.page_content,
                   country |-> chunk.metadata.country,
                   source_file |-> chunk.metadata.source_file,
                   page |-> chunk.metadata.page]]

\* chunks[i:i + batch_size], with 0-based i
Batch_Whole(chunks, i) == SubSeq(chunks, i + 1, Len(chunks))

Batch(chunks, i) == SubSeq(chunks, i + 1, Min(i + batch_size, Len(chunks)))

UpsertNamespace_First(namespace) == INDEX_COUNTRIES[1]

\* the namespace upsert_chunks writes to
UpsertNamespace(namespace) == namespace

\* Pinecone upsert: records replace the stored records of the same id
Upserted_Append(old, vectors) ==
    old \cup {vectors[k] : k \in 1..Len(vectors)}

Upserted(old, vectors) ==
    {r \in old : \A k \in 1..Len(vectors) : vectors[k].id # r.id}
        \cup {vectors[k] : k \in 1..Len(vectors)}

NoUpsert == [namespace |-> <<>>, vectors |-> <<>>]

IxInit ==
    [pc |-> "main",
     ci |-> 1,
     country |-> <<>>,
     chunks |-> <<>>,
     i |-> 0,
     embedded |-> 0,
     upserts |-> 0,
     sleeps |-> 0,
     last_upsert |-> NoUpsert,
     attempted |-> <<>>,
     outcome |-> "none",
     store |-> [ns \in Namespaces |-> {}],
     stats_fetches |-> 0,
     missing |-> {},
     prior |-> [ns \in Namespaces |-> {}],
     ops |-> <<>>,
     ids |-> <<>>,
     skipped |-> {},
     trail |-> <<>>]

\* the records a complete pass over chunks leaves in the namespace
PassRecords(namespace, chunks) ==
    {VectorRecord(namespace, 0, p - 1, chunks[p]) : p \in 1..Len(chunks)}

\* what the index holds when the builder starts (_get_or_create_index
\* reuses an existing index): nothing, or the records of an earlier run
\* over other documents of the first two countries
PriorStores ==
    { [ns \in Namespaces |-> {}],
      [ns \in Namespaces |->
          IF ns = INDEX_COUNTRIES[1]
          THEN PassRecords(ns, AllChunks(ns, <<MaxChunks - 1, 1>>, 1))
          ELSE IF ns = INDEX_COUNTRIES[2]
          THEN PassRecords(ns, AllChunks(ns, <<1, 1>>, 1))
          ELSE {}] }

\* the calls of one batch, in program order
EmbedOps(i, n) == [k \in 1..n |-> [op |-> "embed_query", n |-> i + k - 1]]

UpsertOp(n) == [op |-> "upsert", n |-> n]

SleepOp == [op |-> "sleep", n |-> 0]

RaisedOp(name, p) == [op |-> name, n |-> p]

IxUnchanged ==
    UNCHANGED <<entry, settings, pipeline, constructed, attempts, invocations,
                pc, body, q, result, response, calls>>

\* main(): IndexBuilder() either raises (fatal) or the run starts
builder_init(raises) ==
    /\ entry = "build_index"
    /\ ix.pc = "main"
    /\ ix' = [ix EXCEPT !.pc = IF raises THEN "fatal" ELSE "run"]
    /\ IxUnchanged

\* run(): the end of one iteration of the country loop
NextCountry(state, outcome) ==
    [state EXCEPT !.pc = "run", !.ci = @ + 1, !.outcome = outcome]

\* run() calls process_country(country) for the next country; found is
\* what is under the country's directory
process_country(found) ==
    /\ entry = "build_index"
    /\ ix.pc = "run"
    /\ ix.ci <= Len(INDEX_COUNTRIES)
    /\ LET country == INDEX_COUNTRIES[ix.ci]
           begun == [ix EXCEPT !.attempted = Append(@, country),
                               !.country = country,
                               !.chunks = <<>>, !.i = 0, !.embedded = 0,
                               !.upserts = 0, !.sleeps = 0,
                               !.ops = <<>>, !.ids = <<>>,
                               !.last_upsert = NoUpsert]
       IN  IF found.kind \in {"no_dir", "no_pdf"}
           THEN ix' = NextCountry([begun EXCEPT !.skipped = @ \cup {country}],
                                  "skipped")
           ELSE IF found.kind = "load_raises"
           THEN ix' = NextCountry(begun, "failed")
           ELSE LET all_chunks == AllChunks(country, found.docs, 1) IN
                IF Len(all_chunks) = 0
                THEN ix' = NextCountry(begun, "indexed")
                ELSE ix' = [begun EXCEPT !.pc = "upsert_chunks",
                                         !.chunks = all_chunks,
                                         !.outcome = "none"]
    /\ IxUnchanged

\* one iteration of the batch loop of upsert_chunks(chunks, namespace):
\* embedFails is the position in the batch whose embed_query raises (0: none),
\* upsertRaises whether index.upsert raises
upsert_batch(embedFails, upsertRaises) ==
    /\ entry = "build_index"
    /\ ix.pc = "upsert_chunks"
    /\ LET namespace == ix.country
           batch == Batch(ix.chunks, ix.i)
           vectors == [idx \in 1..Len(batch) |->
                          VectorRecord(namespace, ix.i, idx - 1, batch[idx])]
           target == UpsertNamespace(namespace)
       IN  /\ embedFails \in 0..Len(batch)
           /\ IF embedFails > 0
              THEN ix' = NextCountry(
                        [ix EXCEPT !.embedded = @ + embedFails,
                                   !.ops = @ \o EmbedOps(ix.i, embedFails - 1)
                                             \o <<RaisedOp("embed_query_raised",
                                                           ix.i + embedFails - 1)>>,
                                   !.ids = @ \o [k \in 1..(embedFails - 1) |-> vectors[k].id]],
                        "failed")
              ELSE IF upsertRaises
              THEN ix' = NextCountry(
                        [ix EXCEPT !.embedded = @ + Len(batch),
                                   !.upserts = @ + 1,
                                   !.ops = @ \o EmbedOps(ix.i, Len(batch))
                                             \o <<RaisedOp("upsert_raised", Len(vectors))>>,
                                   !.ids = @ \o [k \in 1..Len(vectors) |-> vectors[k].id],
                                   !.last_upsert = [namespace |-> target, vectors |-> vectors]],
                        "failed")
              ELSE LET written ==
                        [ix EXCEPT !.embedded = @ + Len(batch),
                                   !.upserts = @ + 1,
                                   !.sleeps = @ + 1,
                                   !.ops = @ \o EmbedOps(ix.i, Len(batch))
                                             \o <<UpsertOp(Len(vectors)), SleepOp>>,
                                   !.ids = @ \o [k \in 1..Len(vectors) |-> vectors[k].id],
                                   !.last_upsert = [namespace |-> target, vectors |-> vectors],
                                   !.store[target] = Upserted(@, vectors),
                                   !.i = @ + batch_size]
                   IN  IF written.i >= Len(ix.chunks)
                       THEN ix' = NextCountry(written, "indexed")
                       ELSE ix' = written
    /\ IxUnchanged

\* the namespaces describe_index_stats shows: with lagging counts, a
\* namespace first written by this run is not shown yet
VisibleNamespaces(state, lagging) ==
    {ns \in Namespaces :
        /\ state.store[ns] # {}
        /\ lagging => state.prior[ns] # {}}

\* verify_indexing: set(COUNTRIES) - set(stats.namespaces.keys())
MissingNamespaces_None(visible) == {}

MissingNamespaces(visible) == Namespaces \ visible

\* run(): after the country loop, verify_indexing() and the elapsed time;
\* statsRaises is whether describe_index_stats raises, which run() and
\* main() let through
verify_indexing(statsRaises, lagging) ==
    /\ entry = "build_index"
    /\ ix.pc = "run"
    /\ ix.ci > Len(INDEX_COUNTRIES)
    /\ IF statsRaises
       THEN ix' = [ix EXCEPT !.pc = "fatal", !.stats_fetches = @ + 1,
                             !.trail = Append(@, "describe_index_stats")]
       ELSE ix' = [ix EXCEPT !.pc = "done",
                             !.stats_fetches = @ + 1,
                             !.missing = MissingNamespaces(VisibleNamespaces(ix, lagging)),
                             !.trail = @ \o <<"describe_index_stats", "coverage", "elapsed">>]
    /\ IxUnchanged

-----------------------------------------------------------------------------

Init ==
    /\ entry \in {"lambda_function", "build_index"}
    /\ settings \in Settings
    \* build_index.py does not import rag_core.config.settings
    /\ entry = "build_index" => settings = DefaultSettings
    /\ pipeline = None
    /\ constructed = 0
    /\ attempts = 0
    /\ invocations = 0
    /\ pc = "idle"
    /\ body = NoBody
    /\ q = NoQuery
    /\ result = None
    /\ response = None
    /\ calls = NoCalls
    /\ ix \in {[IxInit EXCEPT !.store = prior, !.prior = prior] : prior \in PriorStores}
    \* the Lambda process does not run the index builder
    /\ entry = "lambda_function" => ix = IxInit

Next ==
    \/ \E event \in Events : Invoke(event)
    \/ \E clientOK \in BOOLEAN : get_pipeline(clientOK)
    \/ Dispatch
    \/ \E raises \in BOOLEAN, stats \in StatsResults : get_index_stats(raises, stats)
    \/ query_validate
    \/ \E raises \in BOOLEAN : embed_query(raises)
    \/ \E raises \in BOOLEAN, matches \in SearchResults(MaxMatches) : search(raises, matches)
    \/ \E raises \in BOOLEAN : generate_with_context(raises)
    \/ Return
    \/ \E raises \in BOOLEAN : builder_init(raises)
    \/ \E found \in CountryDirs : process_country(found)
    \/ \E embedFails \in {0, 1, batch_size}, upsertRaises \in BOOLEAN :
            upsert_batch(embedFails, upsertRaises)
    \/ \E statsRaises \in BOOLEAN, lagging \in BOOLEAN :
            verify_indexing(statsRaises, lagging)

Spec == Init /\ [][Next]_vars

-----------------------------------------------------------------------------
(* Properties *)

\* the handler has returned from a call of RAGPipeline.query
QueryReturned == pc = "returned" /\ calls.query = 1

ProviderRaised(name) == InList(name, calls.raised)

QueryProviderRaised ==
    \/ ProviderRaised("embed_query")
    \/ ProviderRaised("search")
    \/ ProviderRaised("generate_with_context")

\* s is c with some of its characters upper-cased
CaseVariantOf(s, c) ==
    /\ Len(s) = Len(c)
    /\ \A k \in 1..Len(c) : s[k] = c[k] \/ s[k] = UpperChar(c[k])

\* the request names a supported country, in any case
SupportedRequest ==
    /\ body.country.t = "str"
    /\ \E i \in 1..Len(COUNTRIES) : CaseVariantOf(body.country.s, COUNTRIES[i])

\* C1: for a supported country, when embed_query, search or
\* generate_with_context raises, query raises nothing (the handler returns
\* its result with the success return, not through its except clause) and
\* the result holds exactly an error message and the lower-cased country.
C1_ProviderFailureContained ==
    (QueryReturned /\ QueryProviderRaised) =>
        /\ response = Response(200, result)
        /\ DOMAIN result = {"error", "country"}
        /\ \E i \in 1..Len(COUNTRIES) :
              /\ CaseVariantOf(body.country.s, COUNTRIES[i])
              /\ result.country = COUNTRIES[i]

C1_Witness ==
    /\ QueryReturned
    /\ ProviderRaised("generate_with_context")
    /\ "error" \in DOMAIN result

\* C2: for a country string whose lower-casing is not supported, query
\* raises nothing, returns an error result that contains the full supported
\* set, and calls none of embed_query, search and generate_with_context.
C2_UnsupportedCountryRejected ==
    (QueryReturned /\ body.country.t = "str" /\ ~SupportedRequest) =>
        /\ response = Response(200, result)
        /\ DOMAIN result = {"error", "supported_countries"}
        /\ result.supported_countries =
              << <<"s","p","a","i","n">>, <<"p","o","l","a","n","d">>,
                 <<"c","o","l","o","m","b","i","a">>, <<"i","t","a","l","y">>,
                 <<"g","e","o","r","g","i","a">> >>
        /\ calls.embed_query = <<>>
        /\ calls.search = <<>>
        /\ calls.generate_with_context = <<>>

C2_Witness ==
    /\ QueryReturned
    /\ body.country = JStr(<<"a","t","l","a","n","t","i","s">>)
    /\ "supported_countries" \in DOMAIN result

\* the search of this query returned no match
SearchReturnedNothing ==
    /\ Len(calls.search) = 1
    /\ ~ProviderRaised("search")
    /\ calls.search[1].returned = <<>>

\* C3: when the search of a query returns zero matches, query returns the
\* fixed "no relevant information" answer with an empty sources list, and
\* generate_with_context is not called during that query.
C3_NoMatchesShortCircuit ==
    (QueryReturned /\ SearchReturnedNothing) =>
        /\ calls.generate_with_context = <<>>
        /\ "answer" \in DOMAIN result
        /\ result.sources = <<>>
        /\ result.answer =
              <<"No relevant information found in ",
                <<UpperChar(result.country[1])>>
                    \o SubSeq(result.country, 2, Len(result.country)),
                " knowledge base.">>

C3_Witness ==
    /\ QueryReturned
    /\ SearchReturnedNothing
    /\ response.statusCode = 200

\* the searches of a query go to the single namespace of its country
SearchesScoped ==
    entry = "lambda_function" =>
        /\ Len(calls.search) <= 1
        /\ \A k \in 1..Len(calls.search) :
              /\ InList(calls.search[k].namespace, COUNTRIES)
              /\ CaseVariantOf(body.country.s, calls.search[k].namespace)

\* the last upsert of the indexing of a country went to that country's
\* namespace with that country in every record; stored records sit in the
\* namespace of their country
UpsertsScoped ==
    entry = "build_index" =>
        /\ ix.last_upsert # NoUpsert =>
              /\ ix.last_upsert.namespace = ix.country
              /\ \A k \in 1..Len(ix.last_upsert.vectors) :
                    ix.last_upsert.vectors[k].metadata.country = ix.country
        /\ \A ns \in Namespaces : \A r \in ix.store[ns] :
              r.metadata.country = ns

\* a step of the indexing of one country changes no other namespace
WritesScoped ==
    \A ns \in Namespaces : ix'.store[ns] # ix.store[ns] => ns = ix.country

\* C4: every search of a query for country c uses one namespace, the
\* lower-casing of c, a supported country; every upsert of the indexing of
\* country c targets namespace c with metadata.country = c in every record;
\* no step of one country reads or writes the namespace of another.
C4_NamespaceIsolation ==
    /\ [](SearchesScoped /\ UpsertsScoped)
    /\ [][WritesScoped]_vars

C4_Witness ==
    /\ entry = "build_index"
    /\ ix.pc = "done"
    /\ Cardinality(ix.store[INDEX_COUNTRIES[1]]) = MaxChunks
    /\ Cardinality(ix.store[INDEX_COUNTRIES[2]]) = 1

SuccessFields == {"answer", "country", "sources", "chunks_used", "model"}

\* C5: every result of query is an error shape (it has an error field) or a
\* success shape with all of answer, country, sources, chunks_used, model.
C5_ResultShape ==
    QueryReturned /\ result # None =>
        \/ "error" \in DOMAIN result
        \/ SuccessFields \subseteq DOMAIN result

\* C6: list_countries returns every supported country; a query for any case
\* variant of a supported country c passes validation, and the country of
\* its result and the namespace it searches are c in lower case.
C6_CaseInsensitiveCountry ==
    /\ (pc = "returned" /\ calls.list_countries = 1) =>
          \A c \in {<<"s","p","a","i","n">>, <<"p","o","l","a","n","d">>,
                    <<"c","o","l","o","m","b","i","a">>, <<"i","t","a","l","y">>,
                    <<"g","e","o","r","g","i","a">>} :
              InList(c, response.body.countries)
    /\ \A i \in 1..Len(COUNTRIES) :
          (QueryReturned /\ body.country.t = "str"
                /\ CaseVariantOf(body.country.s, COUNTRIES[i])) =>
              /\ "supported_countries" \notin DOMAIN result
              /\ Len(calls.embed_query) = 1
              /\ result.country = COUNTRIES[i]
              /\ \A k \in 1..Len(calls.search) :
                    calls.search[k].namespace = COUNTRIES[i]

C6_Witness ==
    /\ QueryReturned
    /\ body.country = JStr(<<"S","P","A","I","N">>)
    /\ Len(calls.search) = 1
    /\ result.country = <<"s","p","a","i","n">>

\* C7 as stated: the pipeline is constructed at most once, the first
\* invocation constructs it, and later invocations reuse the instance.
C7_FirstInvocationConstructs ==
    /\ constructed <= 1
    /\ (entry = "lambda_function" /\ invocations >= 1 /\ pc \in {"returned", "idle"})
          => (pipeline # None /\ constructed = 1)

\* C7 as amended: at most one instance is ever constructed; an invocation
\* gets past get_pipeline only with an instance; an instance, once
\* there, is the one every later step sees; a construction that raised left
\* none.
C7_AtMostOneInstance ==
    /\ [](/\ constructed <= 1
          /\ attempts <= invocations
          /\ (pipeline = None <=> constructed = 0)
          /\ (pc \notin {"idle", "get_pipeline", "returned"} => pipeline # None))
    /\ [][/\ pipeline # None => (pipeline' = pipeline /\ attempts' = attempts)
          /\ attempts' # attempts => (pipeline' = None <=> pc' = "returned")]_vars

C7_Witness ==
    /\ invocations = 2
    /\ pc = "dispatch"
    /\ attempts = 1
    /\ pipeline # None

\* C8: a response whose body is an error result never carries a success
\* status: an unsupported country gets a client-error status, a failed
\* provider call of a query or of stats a server-error status.
C8_ErrorStatus ==
    (pc = "returned" /\ "error" \in DOMAIN response.body) =>
        /\ response.statusCode >= 400
        /\ "supported_countries" \in DOMAIN response.body
              => response.statusCode \in 400..499
        /\ calls.raised # <<>> => response.statusCode \in 500..599

\* the request is a query without country or question, or names no known action
InvalidRequest ==
    /\ body.isdict
    /\ \/ ActionOf(body) = a_query /\ (~Truthy(body.country) \/ ~Truthy(body.question))
       \/ ActionOf(body) \notin {a_query, a_stats, a_list_countries}

\* C9: a query request whose country or question is missing or empty, and
\* a request of unknown action, is answered with status 400 and without a
\* call of RAGPipeline.query, in any state of the process.
C9_InvalidRequest400 ==
    (pc = "returned" /\ InvalidRequest) =>
        /\ response.statusCode = 400
        /\ calls.query = 0

\* C10: when the configuration makes construction raise, no pipeline
\* instance exists and no request is handled after the failed construction.
C10_FailedConstructionStopsServing ==
    [][(RAGPipelineInitRaises(settings) /\ attempts >= 1)
          => (pipeline' = None /\ invocations' = invocations)]_vars

-----------------------------------------------------------------------------
\* Properties of the index builder

\* run() has left the country loop and called verify_indexing
RunEnded == ix.stats_fetches > 0

\* the countries attempted so far are a prefix of the configured list
AttemptedInOrder ==
    /\ Len(ix.attempted) <= Len(INDEX_COUNTRIES)
    /\ ix.attempted = SubSeq(INDEX_COUNTRIES, 1, Len(ix.attempted))
    /\ ix.pc = "run" => Len(ix.attempted) = ix.ci - 1
    /\ ix.pc = "upsert_chunks" => Len(ix.attempted) = ix.ci

\* the coverage report and the elapsed time have been printed
Reported ==
    \E k \in 1..Len(ix.trail) : \E j \in 1..Len(ix.trail) :
        ix.trail[k] = "coverage" /\ ix.trail[j] = "elapsed" /\ k < j

\* C11: whatever countries fail, every country of the configured list is
\* attempted exactly once and in list order, and the run then performs the
\* coverage check and reports the elapsed time.
C11_AllAttemptedThenReported ==
    /\ AttemptedInOrder
    /\ RunEnded => (ix.attempted = INDEX_COUNTRIES /\ Reported)

\* the country just left by the loop was skipped: no directory or no PDF
JustSkipped == ix.pc = "run" /\ ix.outcome = "skipped"

\* a skipped country made no embedding and no upsert call
SkipMakesNoCall ==
    JustSkipped =>
        /\ ix.country \in ix.skipped
        /\ ix.ops = <<>> /\ ix.embedded = 0 /\ ix.upserts = 0
        /\ ix.store[ix.country] = ix.prior[ix.country]

\* a skipped country does not end the loop
SkipContinues ==
    /\ [][(ix'.skipped # ix.skipped) =>
             (ix'.pc = "run" /\ ix'.ci = ix.ci + 1 /\ ix'.outcome = "skipped"
              /\ ix'.store = ix.store)]_vars
    /\ [](RunEnded => ix.attempted = INDEX_COUNTRIES)

\* the statement of C12 as written: a country whose directory is missing or
\* holds no documents is skipped without any embedding or upsert call, the
\* other countries are still processed, and the final coverage check
\* reports the namespace of that country as missing (read here for the runs
\* whose coverage check completes).
C12_SkippedReportedMissing_Original ==
    /\ SkipMakesNoCall
    /\ RunEnded => ix.attempted = INDEX_COUNTRIES
    /\ ix.pc = "done" => (Reported /\ \A c \in ix.skipped : c \in ix.missing)

\* C12: a country whose directory is missing or holds no documents is
\* skipped without an exception and without any embedding or upsert call,
\* and every other country is still processed; when describe_index_stats
\* returns, the coverage check reports the namespace of that country as
\* missing exactly when the index held no records in it before the run, and
\* when describe_index_stats raises the run ends without a report.
C12_SkippedReportedMissing ==
    /\ [](SkipMakesNoCall)
    /\ SkipContinues
    /\ [](ix.pc = "done" =>
             (Reported /\ \A c \in ix.skipped : (c \in ix.missing <=> ix.prior[c] = {})))
    /\ []((ix.pc = "fatal" /\ RunEnded) => (~Reported /\ ix.missing = {}))

\* a run that skipped one country with an empty namespace and one with
\* records of an earlier run, and indexed another country
C12_Witness ==
    /\ ix.pc = "done"
    /\ \E c \in ix.skipped : ix.prior[c] = {} /\ c \in ix.missing
    /\ \E c \in ix.skipped : ix.prior[c] # {} /\ c \notin ix.missing
    /\ \E c \in Namespaces \ ix.skipped : ix.store[c] # ix.prior[c]

\* C13: the store-wide stats are fetched exactly once, only after the last
\* country has been processed and only after a settling interval has been
\* waited since the end of country processing; missing namespaces are a
\* warning and do not fail the run.
C13_StatsOnceAfterSettling ==
    /\ ix.stats_fetches <= 1
    /\ RunEnded =>
          /\ ix.attempted = INDEX_COUNTRIES
          /\ ix.ci > Len(INDEX_COUNTRIES)
          /\ \E k \in 2..Len(ix.trail) :
                 ix.trail[k] = "describe_index_stats" /\ ix.trail[k - 1] = "sleep"
    /\ (ix.missing # {}) => ix.pc = "done"

\* the pass over the country just left by the loop completed without error
PassCompleted == ix.pc = "run" /\ ix.outcome = "indexed"

\* C14: in one indexing pass over a country with N chunks the chunk at
\* global position p gets the id <country>_p, also across batch boundaries:
\* the ids are pairwise distinct and are exactly <country>_0 ..
\* <country>_(N-1), and no record of the pass overwrites another record of
\* the same pass.
C14_IdsDistinctAndContiguous ==
    /\ ix.ids = [p \in 1..Len(ix.ids) |-> VectorId(ix.country, p - 1)]
    /\ Cardinality({ix.ids[p] : p \in 1..Len(ix.ids)}) = Len(ix.ids)
    /\ PassCompleted =>
          /\ Len(ix.ids) = Len(ix.chunks)
          /\ {<<ix.ids[p], ix.chunks[p].page_content>> : p \in 1..Len(ix.chunks)}
                 \subseteq {<<r.id, r.metadata.text>> : r \in ix.store[ix.country]}

\* a completed pass whose chunks span more than one batch
C14_Witness ==
    /\ PassCompleted
    /\ Len(ix.chunks) > batch_size
    /\ Len(ix.ids) = Len(ix.chunks)

-----------------------------------------------------------------------------
\* Properties of the query path, continued

\* C15: every call of VectorStore.search made by a query has top_k >= 1,
\* and its top_k is the value the caller supplied whenever the caller
\* supplied one and the configured default otherwise, for every integer
\* top_k a request may carry.
C15_SearchTopK ==
    \A k \in 1..Len(calls.search) :
        /\ calls.search[k].top_k >= 1
        /\ calls.search[k].top_k =
              IF body.top_k.t = "absent" THEN settings.TOP_K_RESULTS ELSE body.top_k.n

\* the query has returned after a search that gave at least one match and
\* no provider call raised
AnsweredFromMatches ==
    /\ QueryReturned
    /\ calls.raised = <<>>
    /\ Len(calls.search) = 1
    /\ Len(calls.search[1].returned) >= 1

\* the page shown for a match: its page, or "N/A" when it has none
PageOf(match) ==
    IF "page" \in DOMAIN match.metadata THEN <<match.metadata.page>> ELSE <<"N/A">>

\* C16: when search returns m >= 1 matches and no provider fails, query
\* calls generate_with_context exactly once, with the m metadata texts in
\* ranked order and temperature 0.3, and returns m sources in the same
\* order with chunks_used = m <= top_k, the page of each source being the
\* page of its match, or "N/A" when the match has none.
C16_GenerateOnceInOrder ==
    AnsweredFromMatches =>
        LET returned == calls.search[1].returned
            m == Len(returned)
        IN  /\ Len(calls.generate_with_context) = 1
            /\ calls.generate_with_context[1].context_chunks =
                   [k \in 1..m |-> returned[k].metadata.text]
            /\ calls.generate_with_context[1].temperature = "0.3"
            /\ "error" \notin DOMAIN result
            /\ Len(result.sources) = m
            /\ \A k \in 1..m :
                   /\ result.sources[k].file = returned[k].metadata.source_file
                   /\ result.sources[k].score = returned[k].score
                   /\ result.sources[k].page = PageOf(returned[k])
            /\ result.chunks_used = m
            /\ m <= calls.search[1].top_k

\* a query answered from two matches, the first with a page and the second
\* without
C16_Witness ==
    /\ AnsweredFromMatches
    /\ Len(calls.search[1].returned) = 2
    /\ "page" \in DOMAIN calls.search[1].returned[1].metadata
    /\ "page" \notin DOMAIN calls.search[1].returned[2].metadata
    /\ result.chunks_used = 2

-----------------------------------------------------------------------------
\* Properties of the index builder, continued

RECURSIVE SequentialOps(_, _)
\* the calls of a strictly sequential pass over chunks i .. N-1 (0-based):
\* per batch of at most batch_size chunks, one embedding per chunk in chunk
\* order, then one upsert of the batch, then the delay
SequentialOps(N, i) ==
    IF i >= N THEN <<>>
    ELSE LET size == Min(batch_size, N - i) IN
         [k \in 1..size |-> [op |-> "embed_query", n |-> i + k - 1]]
            \o <<[op |-> "upsert", n |-> size], [op |-> "sleep", n |-> 0]>>
            \o SequentialOps(N, i + batch_size)

\* the calls of the current pass that returned: all but a last raising one
ReturnedOps ==
    IF ix.ops # <<>> /\ ix.ops[Len(ix.ops)].op \in {"embed_query_raised", "upsert_raised"}
    THEN SubSeq(ix.ops, 1, Len(ix.ops) - 1)
    ELSE ix.ops

\* the pass over the country just left by the loop failed in upsert_chunks
PassFailed == ix.pc = "run" /\ ix.outcome = "failed" /\ ix.chunks # <<>>

\* the number of upserts of the current pass that returned
UpsertsDone == Cardinality({k \in 1..Len(ix.ops) : ix.ops[k].op = "upsert"})

\* the calls of a pass follow the sequential order, batch by batch
OpsSequential ==
    LET N == Len(ix.chunks)
        expected == SequentialOps(N, 0)
    IN  /\ Len(ReturnedOps) <= Len(expected)
        /\ ReturnedOps = SubSeq(expected, 1, Len(ReturnedOps))
        /\ \A k \in 1..Len(ix.ops) :
               ix.ops[k].op \in {"upsert", "upsert_raised"} => ix.ops[k].n <= batch_size
        /\ PassCompleted =>
              /\ ix.ops = expected
              /\ ix.embedded = N
              /\ ix.upserts = (N + batch_size - 1) \div batch_size
              /\ ix.sleeps = ix.upserts

\* after a failed pass the namespace holds what it held before, overwritten
\* by the records of the whole batches before the failing one
FailureKeepsWholeBatches ==
    PassFailed =>
        LET written == PassRecords(ix.country, SubSeq(ix.chunks, 1, ix.i))
        IN  /\ ix.i = batch_size * UpsertsDone
            /\ ix.i < Len(ix.chunks)
            /\ ix.store[ix.country] =
                   {r \in ix.prior[ix.country] : \A w \in written : w.id # r.id}
                       \cup written

\* the calls of one country are not interleaved with those of another
CountriesNotInterleaved ==
    [][(ix'.ops # ix.ops) =>
          /\ ix'.country = INDEX_COUNTRIES[ix.ci]
          /\ ix'.ops # <<>> => (ix.pc = "upsert_chunks" /\ ix.country = ix'.country)
          /\ ix'.ci >= ix.ci]_vars

\* C17: indexing is strictly sequential: a country with N chunks gets N
\* embedding calls in chunk order and ceil(N/100) upserts of at most 100
\* records; batch k is upserted after all its embeddings and before any
\* embedding of batch k+1, a delay follows each upsert, and the calls of
\* one country are not interleaved with those of another. After a failing
\* embedding or upsert the records written for the country are exactly
\* those of the whole batches before the failing one.
C17_SequentialIndexing ==
    /\ [](OpsSequential)
    /\ [](FailureKeepsWholeBatches)
    /\ CountriesNotInterleaved

\* the first country was indexed in two batches and the pass over the
\* second country failed in its second batch
C17_Witness ==
    /\ PassFailed
    /\ ix.country = INDEX_COUNTRIES[2]
    /\ ix.i = batch_size
    /\ UpsertsDone = 1
    /\ Cardinality(ix.store[INDEX_COUNTRIES[1]]) > batch_size
    /\ ix.prior[INDEX_COUNTRIES[1]] = {}

\* the statement of C18 as written: after a pass for country c completes
\* without error the namespace c holds exactly the records of the chunks of
\* that pass, so that no record of an earlier pass over a larger chunk set
\* remains.
C18_ExactlyThePass_Original ==
    PassCompleted => ix.store[ix.country] = PassRecords(ix.country, ix.chunks)

\* C18: after a pass for country c completes without error the namespace c
\* holds the records of the chunks of that pass, one record per id, and
\* besides them exactly the records it held before under ids the pass did
\* not write: a pass over unchanged documents leaves the namespace as it
\* was (no duplication), and the records of an earlier pass over a larger
\* chunk set stay under the ids c_N and above.
C18_PassRecordsAndStale ==
    PassCompleted =>
        LET pass == PassRecords(ix.country, ix.chunks)
            passIds == {r.id : r \in pass}
            held == ix.store[ix.country]
        IN  /\ pass \subseteq held
            /\ Cardinality({r.id : r \in held}) = Cardinality(held)
            /\ held \ pass = {r \in ix.prior[ix.country] : r.id \notin passIds}
            /\ ix.prior[ix.country] = pass => held = ix.prior[ix.country]

\* a completed pass over fewer chunks than an earlier pass wrote: a record
\* of the earlier pass was overwritten and another one remains
C18_Witness ==
    /\ PassCompleted
    /\ Len(ix.chunks) >= 1
    /\ ix.prior[ix.country] # {}
    /\ Cardinality(ix.store[ix.country]) > Len(ix.chunks)
    /\ PassRecords(ix.country, ix.chunks) \subseteq ix.store[ix.country]

====
